---- MODULE Spec2Model ----
(***************************************************************************)
(* Sleep-restriction titration engine of sleepassured: the sleep diary,    *)
(* the baseline and weekly computations of services/cbti-engine.ts, the    *)
(* schedule routes and the weekly orchestrator of jobs/weekly-adjustment.  *)
(*                                                                         *)
(* Time is counted in whole days; a timestamp is a number of minutes       *)
(* (day * 1440 + minute of the day).  Day d is a Sunday iff d % 7 = 0, so  *)
(* the calendar week of day d, Sunday to Saturday, is d \div 7.  Sleep     *)
(* efficiencies are kept in hundredths of a percent, the precision of the  *)
(* DECIMAL(5,2) columns.                                                   *)
(***************************************************************************)
EXTENDS Integers, Sequences, FiniteSets, TLC

(* ---------------------------------------------------------------------- *)
(* Bounds of the exploration                                               *)
(* ---------------------------------------------------------------------- *)
\* number of times the clock advances in a run
MaxAdvances == 1

\* how many orchestrator invocations run at the same time
MaxCalls == 2
MaxDays == 30

(* ---------------------------------------------------------------------- *)
(* Constants of the program                                                *)
(* ---------------------------------------------------------------------- *)
MIN_TIME_IN_BED_MINS == 300
MAX_TIME_IN_BED_MINS == 540
ADJUSTMENT_INCREMENT_MINS == 15
MIN_ENTRIES_FOR_ADJUSTMENT == 5
SE_THRESHOLD_INCREASE == 85
SE_THRESHOLD_MAINTAIN == 80
SE_FLAG_THRESHOLD == 70
\* the literal 75 of calculateBaselineSleepWindow
SE_TIGHT_BASELINE == 75
\* the literal 7 of every trailing-week query
TRAILING_DAYS == 7
\* the literal 5 of checkAndUpdateBaselineStatus
BASELINE_ENTRY_COUNT == 5
DAY_MINUTES == 1440

\* the first day of every run: a Monday with a full trailing week before it
FirstDay == TRAILING_DAYS + 1

\* the calendar week, Sunday to Saturday, of a day
WeekOf(day) == day \div 7

(* ---------------------------------------------------------------------- *)
(* Arithmetic of JavaScript numbers on the values the engine handles       *)
(* ---------------------------------------------------------------------- *)
Max(a, b) == IF a >= b THEN a ELSE b
Min(a, b) == IF a <= b THEN a ELSE b
Abs(a) == IF a < 0 THEN 0 - a ELSE a

\* Math.round(num / den) for den > 0: the nearest integer, halves upwards
RoundDiv(num, den) == (2 * num + den) \div (2 * den)

RECURSIVE SumFn(_, _)
\* entries.reduce((sum, e) => sum + f[e], 0) over the entries S
SumFn(f, S) ==
    IF S = {} THEN 0
    ELSE LET e == CHOOSE x \in S : TRUE IN f[e] + SumFn(f, S \ {e})

(* ---------------------------------------------------------------------- *)
(* Wall-clock strings: "HH:MM" is a sequence of one-character strings      *)
(* ---------------------------------------------------------------------- *)
Digits == <<"0", "1", "2", "3", "4", "5", "6", "7", "8", "9">>

DigitValue(c) == (CHOOSE i \in 1..10 : Digits[i] = c) - 1

RECURSIVE NatToString(_)
\* Number.prototype.toString of a non-negative integer
NatToString(n) ==
    IF n < 10 THEN <<Digits[n + 1]>>
    ELSE NatToString(n \div 10) \o <<Digits[(n % 10) + 1]>>

\* Number.prototype.toString of an integer
IntToString(n) == IF n < 0 THEN <<"-">> \o NatToString(0 - n) ELSE NatToString(n)

\* String.prototype.padStart(2, "0")
PadStart2(s) == IF Len(s) < 2 THEN <<"0">> \o s ELSE s

\* Number("dd") of a string of decimal digits
RECURSIVE DigitsToNat(_)
DigitsToNat(s) ==
    IF s = <<>> THEN 0
    ELSE 10 * DigitsToNat(SubSeq(s, 1, Len(s) - 1)) + DigitValue(s[Len(s)])

\* wakeTime.split(":").map(Number) of a string matching the HH:MM pattern
ParseHour(t) == DigitsToNat(SubSeq(t, 1, 2))
ParseMin(t) == DigitsToNat(SubSeq(t, 4, 5))

\* Math.floor(a / 60) and the JavaScript remainder a % 60 (sign of a)
FloorDiv60(a) == a \div 60
JsRem60(a) == IF a >= 0 THEN a % 60 ELSE 0 - ((0 - a) % 60)

calculateBedtime(wakeTime, timeInBedMins) ==
    LET wakeMinutes == ParseHour(wakeTime) * 60 + ParseMin(wakeTime)
        diff == wakeMinutes - timeInBedMins
        bedtimeMinutes == IF diff < 0 THEN diff + 24 * 60 ELSE diff
        bedHour == FloorDiv60(bedtimeMinutes)
        bedMin == JsRem60(bedtimeMinutes)
    IN  PadStart2(IntToString(bedHour)) \o <<":">> \o PadStart2(IntToString(bedMin))

(* ---------------------------------------------------------------------- *)
(* Sleep metrics of one night                                              *)
(* ---------------------------------------------------------------------- *)
\* DECIMAL(5,2) value of (totalSleepTimeMins / timeInBedMins) * 100, in hundredths
EfficiencyHundredths(tst, tib) == IF tib > 0 THEN RoundDiv(tst * 10000, tib) ELSE 0

\* a variant that lets the time asleep go below zero
calculateSleepMetricsUnclamped(bedtime, outOfBedTime, sol, waso) ==
    LET tib == outOfBedTime - bedtime
        tst == tib - sol - waso
    IN  [timeInBedMins |-> tib,
         totalSleepTimeMins |-> tst,
         sleepEfficiency |-> EfficiencyHundredths(tst, tib)]

calculateSleepMetrics(bedtime, outOfBedTime, sol, waso) ==
    LET tib == outOfBedTime - bedtime
        tst == Max(0, tib - sol - waso)
    IN  [timeInBedMins |-> tib,
         totalSleepTimeMins |-> tst,
         sleepEfficiency |-> EfficiencyHundredths(tst, tib)]

(* ---------------------------------------------------------------------- *)
(* Inputs of the exploration                                               *)
(* ---------------------------------------------------------------------- *)
\* Nights a request or a device record may describe: bed and out are minutes
\* from the midnight that starts the entry's date (negative: the evening
\* before), sol and waso are within the 0..600 the request schema accepts.
Nights ==
    { [bed |-> 0 - 60,  out |-> 420, sol |-> 20, waso |-> 47],    \* 480 min, 86.04 %
      [bed |-> 0 - 300, out |-> 480, sol |-> 60, waso |-> 200] }  \* 780 min, 66.67 %

\* numbers of most recent nights one device import delivers
ImportSpans == {5}

\* target wake times a profile update may carry (they match the HH:MM pattern)
WakeTimes == { <<"0", "7", ":", "0", "0">> }

\* a manual diary request addresses the date that lies this many days back
EditOffsets == {0}

\* numbers of days that pass between two operations: a night, a week
ClockSteps == {1, 7}

(* ---------------------------------------------------------------------- *)
(* State                                                                   *)
(* ---------------------------------------------------------------------- *)
VARIABLES
    today,      \* the current day
    advances,   \* how often the clock has advanced
    users,      \* users[u]: the engine's columns of table users
    diary,      \* rows of table sleep_diaries
    windows,    \* rows of table sleep_windows
    job,        \* the running batch of runWeeklyAdjustmentJob
    calls,      \* calls[p]: an orchestrator invocation that runs step by step
    scheduler   \* the timers of startWeeklyAdjustmentScheduler

vars == <<today, advances, users, diary, windows, job, calls, scheduler>>

NoTime == <<>>
NoReason == [text |-> "", tenths |-> 0]

\* a WeeklyAdjustmentResult; absent fields are 0, "" or FALSE
NoAdjustment ==
    [status |-> "none", entriesNeeded |-> 0, seSum |-> 0, seCount |-> 0,
     currentTIB |-> 0, newTIB |-> 0, action |-> "", flagged |-> FALSE,
     flagReason |-> NoReason, error |-> ""]

\* an AdjustmentJobResult
JobResult(u, ok, adj, err) ==
    [userId |-> u, success |-> ok,
     action |-> IF ok THEN adj.action ELSE "",
     newTIB |-> IF ok THEN adj.newTIB ELSE 0,
     error |-> err]

NewUser ==
    [targetWakeTime |-> NoTime, baselineComplete |-> FALSE, therapyStartDate |-> 0,
     flaggedForReview |-> FALSE, flaggedReason |-> NoReason]

IdleJob == [pc |-> "idle", queue |-> <<>>, results |-> <<>>, skipped |-> 0, totalUsers |-> 0]

\* an invocation that has not begun: its position, whether the batch loop made
\* it, and the locals of processUserAdjustment
NoCall ==
    [pc |-> "idle", batch |-> FALSE, userId |-> 0, weekStartDate |-> 0,
     existingWindow |-> FALSE, adjustment |-> NoAdjustment, outcome |-> "", error |-> ""]


\* the module variables adjustmentTimeout and adjustmentInterval (TRUE: a
\* handle, FALSE: null), the days their timers are due (0: none armed), the
\* callbacks that wait for runWeeklyAdjustmentJob, and what has happened
NoScheduler ==
    [started |-> FALSE, startDay |-> 0, stopped |-> FALSE, exited |-> FALSE,
     adjustmentTimeout |-> FALSE, timeoutDue |-> 0,
     adjustmentInterval |-> FALSE, intervalDue |-> 0,
     running |-> {}, runsStarted |-> 0]

UserIds == DOMAIN users

(* ---------------------------------------------------------------------- *)
(* Sleep diary                                                             *)
(* ---------------------------------------------------------------------- *)
EntriesOf(u) == {e \in diary : e.userId = u}

\* a query that leaves the end date out
getDiaryEntriesExclusive(u, startDate, endDate) ==
    {e \in diary : e.userId = u /\ e.date >= startDate /\ e.date < endDate}

\* getDiaryEntries(userId, startDate, endDate), dates inclusive
getDiaryEntries(u, startDate, endDate) ==
    {e \in diary : e.userId = u /\ e.date >= startDate /\ e.date <= endDate}

isWithinBackfillLimit(date) == date >= today - TRAILING_DAYS /\ date <= today

MakeEntry(u, date, n) ==
    LET bedtime == date * DAY_MINUTES + n.bed
        outOfBedTime == date * DAY_MINUTES + n.out
        m == calculateSleepMetrics(bedtime, outOfBedTime, n.sol, n.waso)
    IN  [userId |-> u, date |-> date, bedtime |-> bedtime, outOfBedTime |-> outOfBedTime,
         sleepOnsetLatencyMins |-> n.sol, wakeAfterSleepOnsetMins |-> n.waso,
         timeInBedMins |-> m.timeInBedMins, totalSleepTimeMins |-> m.totalSleepTimeMins,
         sleepEfficiency |-> m.sleepEfficiency]

\* a variant that recomputes the flag from the count on every call
checkAndUpdateBaselineStatusRecompute(us, d, u) ==
    LET entryCount == Cardinality({e \in d : e.userId = u /\ e.date >= today - TRAILING_DAYS})
    IN  [us EXCEPT ![u].baselineComplete = entryCount >= BASELINE_ENTRY_COUNT,
                   ![u].therapyStartDate =
                       IF us[u].therapyStartDate # 0 THEN us[u].therapyStartDate ELSE today]

\* the users table after checkAndUpdateBaselineStatus(u) with the diary d
checkAndUpdateBaselineStatus(us, d, u) ==
    LET entryCount == Cardinality({e \in d : e.userId = u /\ e.date >= today - TRAILING_DAYS})
    IN  IF us[u].baselineComplete THEN us
        ELSE IF entryCount >= BASELINE_ENTRY_COUNT
        THEN [us EXCEPT ![u].baselineComplete = TRUE,
                        ![u].therapyStartDate =
                            IF us[u].therapyStartDate # 0 THEN us[u].therapyStartDate ELSE today]
        ELSE IF us[u].therapyStartDate = 0
        THEN [us EXCEPT ![u].therapyStartDate = today]
        ELSE us

ManualDates == {today - k : k \in EditOffsets}

\* POST /api/diary
CreateEntry(u, date, n) ==
    /\ isWithinBackfillLimit(date)
    /\ n.out > n.bed
    /\ ~ \E e \in diary : e.userId = u /\ e.date = date
    /\ diary' = diary \cup {MakeEntry(u, date, n)}
    /\ users' = checkAndUpdateBaselineStatus(users, diary', u)
    /\ UNCHANGED <<today, advances, windows, job, calls, scheduler>>

\* PUT /api/diary/:date
UpdateEntry(u, date, n) ==
    /\ \E e \in diary : e.userId = u /\ e.date = date
    /\ n.out > n.bed
    /\ diary' = {e \in diary : ~(e.userId = u /\ e.date = date)} \cup {MakeEntry(u, date, n)}
    /\ diary' # diary
    /\ UNCHANGED <<today, advances, users, windows, job, calls, scheduler>>

\* DELETE /api/diary/:date
DeleteEntry(u, date) ==
    /\ \E e \in diary : e.userId = u /\ e.date = date
    /\ diary' = {e \in diary : ~(e.userId = u /\ e.date = date)}
    /\ users' = checkAndUpdateBaselineStatus(users, diary', u)
    /\ UNCHANGED <<today, advances, windows, job, calls, scheduler>>

\* the latency and the time awake autoCreateDiaryFromWhoop derives from the
\* awake minutes of a device record
estimatedNight(n) ==
    LET awakeMins == n.sol + n.waso
        estimatedSleepOnsetLatency == Min(RoundDiv(awakeMins * 3, 10), 60)
    IN  [n EXCEPT !.sol = estimatedSleepOnsetLatency,
                  !.waso = Max(0, awakeMins - estimatedSleepOnsetLatency)]

\* autoCreateDiaryFromWhoop(u) when the device delivered the night n for each
\* of the last span dates
AutoImport(u, span, n) ==
    LET dates == {d \in (today - span + 1)..today : d >= today - TRAILING_DAYS}
        fresh == {d \in dates : ~ \E e \in diary : e.userId = u /\ e.date = d}
    IN  /\ fresh # {}
        /\ diary' = diary \cup {MakeEntry(u, d, estimatedNight(n)) : d \in fresh}
        /\ users' = checkAndUpdateBaselineStatus(users, diary', u)
        /\ UNCHANGED <<today, advances, windows, job, calls, scheduler>>

\* a variant that carries the new wake time into the stored windows
SetTargetWakeTimeCascading(u, w) ==
    /\ users[u].targetWakeTime # w
    /\ users' = [users EXCEPT ![u].targetWakeTime = w]
    /\ windows' = {IF x.userId = u THEN [x EXCEPT !.prescribedWakeTime = w] ELSE x :
                      x \in windows}
    /\ UNCHANGED <<today, advances, diary, job, calls, scheduler>>

\* PATCH /api/users/me with a targetWakeTime
SetTargetWakeTime(u, w) ==
    /\ users[u].targetWakeTime # w
    /\ users' = [users EXCEPT ![u].targetWakeTime = w]
    /\ UNCHANGED <<today, advances, diary, windows, job, calls, scheduler>>

\* days pass
AdvanceDay(k) ==
    /\ advances < MaxAdvances
    /\ advances' = advances + 1
    /\ today' = today + k
    /\ UNCHANGED <<users, diary, windows, job, calls, scheduler>>

(* ---------------------------------------------------------------------- *)
(* Repository failures                                                     *)
(* ---------------------------------------------------------------------- *)
\* A handler run is given the call site whose repository call rejects, or
\* "none".  A rejected call ends the enclosing try block, so one site per
\* run covers every failure a run can meet.
DbError == "database error"
UniqueViolation == "Unique constraint failed on the fields: user_id, week_start_date"

EngineFaults ==
    {"none", "base.userRead", "base.entries", "calc.entries", "calc.currentWindow",
     "flag.update"}

CoachFaults == {"coach.noContext", "coach.failed"}

ProcessFaults ==
    EngineFaults \cup CoachFaults \cup
    {"proc.userRead", "proc.findFirst", "create.userRead", "create.insert"}

JobFaults == ProcessFaults \cup {"job.findUnique"}

InitializeFaults ==
    EngineFaults \cup {"init.findFirst", "init.userRead", "create.userRead", "create.insert"}

(* ---------------------------------------------------------------------- *)
(* services/cbti-engine.ts                                                 *)
(* ---------------------------------------------------------------------- *)
WindowsOf(ws, u) == {w \in ws : w.userId = u}

\* findFirst({where: {userId}, orderBy: {weekStartDate: "desc"}}); {} is null
LatestWindow(ws, u) ==
    IF WindowsOf(ws, u) = {} THEN {}
    ELSE {CHOOSE w \in WindowsOf(ws, u) :
              \A x \in WindowsOf(ws, u) :
                  \/ x.weekStartDate < w.weekStartDate
                  \/ (x.weekStartDate = w.weekStartDate /\ x.id <= w.id)}

getCurrentSleepWindow(ws, u) == LatestWindow(ws, u)

SeSum(entries) == SumFn([e \in entries |-> e.sleepEfficiency], entries)
TibSum(entries) == SumFn([e \in entries |-> e.timeInBedMins], entries)
\* sum of Math.round((Number(e.sleepEfficiency) / 100) * e.timeInBedMins)
TstSum(entries) ==
    SumFn([e \in entries |-> RoundDiv(e.sleepEfficiency * e.timeInBedMins, 10000)], entries)

\* a comparison that takes the threshold itself for low
AvgBelowOrEqual(seSum, n, pct) == seSum <= pct * 100 * n

\* avgEfficiency < pct and avgEfficiency >= pct for an average seSum / (100 * n)
AvgBelow(seSum, n, pct) == seSum < pct * 100 * n
AvgAtLeast(seSum, n, pct) == seSum >= pct * 100 * n

\* avgEfficiency.toFixed(1), in tenths of a percent
ToFixed1(seSum, n) == RoundDiv(seSum, 10 * n)

\* a flag write that stores the negation of the stored flag
flagUserForReviewToggle(us, u, reason) ==
    [us EXCEPT ![u].flaggedForReview = ~us[u].flaggedForReview, ![u].flaggedReason = reason]

\* the users table after flagUserForReview(u, reason)
flagUserForReview(us, u, reason) ==
    [us EXCEPT ![u].flaggedForReview = TRUE, ![u].flaggedReason = reason]

\* a catch block that returns the status without a message
ErrorResultSilent(msg) == [NoAdjustment EXCEPT !.status = "error"]

ErrorResult(msg) == [NoAdjustment EXCEPT !.status = "error", !.error = msg]

InsufficientData(n) ==
    [NoAdjustment EXCEPT !.status = "insufficient_data",
                         !.entriesNeeded = MIN_ENTRIES_FOR_ADJUSTMENT - n]

\* the initial time in bed of calculateBaselineSleepWindow
BaselineTIB(entries) ==
    LET n == Cardinality(entries)
        clamped == Max(MIN_TIME_IN_BED_MINS,
                       Min(MAX_TIME_IN_BED_MINS, RoundDiv(TibSum(entries), n)))
    IN  IF AvgBelow(SeSum(entries), n, SE_TIGHT_BASELINE)
        THEN Max(MIN_TIME_IN_BED_MINS, RoundDiv(TstSum(entries) + 30 * n, n))
        ELSE clamped

\* a baseline computation that looks at baselineComplete before the wake time
calculateBaselineSleepWindowReordered(us, u, fault) ==
    LET entries == getDiaryEntries(u, today - TRAILING_DAYS, today)
        n == Cardinality(entries)
    IN  IF ~us[u].baselineComplete
        THEN [result |-> ErrorResult("Baseline week not yet complete"), users |-> us]
        ELSE IF us[u].targetWakeTime = NoTime
        THEN [result |-> ErrorResult("User has no target wake time set"), users |-> us]
        ELSE IF n < MIN_ENTRIES_FOR_ADJUSTMENT
        THEN [result |-> InsufficientData(n), users |-> us]
        ELSE [result |-> [NoAdjustment EXCEPT !.status = "success", !.seSum = SeSum(entries),
                                              !.seCount = n,
                                              !.currentTIB = RoundDiv(TibSum(entries), n),
                                              !.newTIB = BaselineTIB(entries),
                                              !.action = "baseline"],
              users |-> us]

\* calculateBaselineSleepWindow(u): the result and the users table it leaves
calculateBaselineSleepWindow(us, u, fault) ==
    LET caught == [result |-> ErrorResult("Failed to calculate baseline sleep window"),
                   users |-> us]
        entries == getDiaryEntries(u, today - TRAILING_DAYS, today)
        n == Cardinality(entries)
        seSum == SeSum(entries)
        low == AvgBelow(seSum, n, SE_FLAG_THRESHOLD)
        reason == [text |-> "Low baseline SE", tenths |-> ToFixed1(seSum, n)]
    IN  IF fault = "base.userRead" THEN caught
        ELSE IF us[u].targetWakeTime = NoTime
        THEN [result |-> ErrorResult("User has no target wake time set"), users |-> us]
        ELSE IF ~us[u].baselineComplete
        THEN [result |-> ErrorResult("Baseline week not yet complete"), users |-> us]
        ELSE IF fault = "base.entries" THEN caught
        ELSE IF n < MIN_ENTRIES_FOR_ADJUSTMENT
        THEN [result |-> InsufficientData(n), users |-> us]
        ELSE IF low /\ fault = "flag.update" THEN caught
        ELSE [result |->
                 [status |-> "success", entriesNeeded |-> 0,
                  seSum |-> seSum, seCount |-> n,
                  currentTIB |-> RoundDiv(TibSum(entries), n),
                  newTIB |-> BaselineTIB(entries),
                  action |-> "baseline", flagged |-> low,
                  flagReason |-> IF low THEN reason ELSE NoReason,
                  error |-> ""],
              users |-> IF low THEN flagUserForReview(us, u, reason) ELSE us]

\* a decision table that leaves the bounds out
WeeklyDecisionUnclamped(seSum, n, currentTIB) ==
    IF AvgAtLeast(seSum, n, SE_THRESHOLD_INCREASE)
    THEN [newTIB |-> currentTIB + ADJUSTMENT_INCREMENT_MINS, action |-> "increase"]
    ELSE IF AvgAtLeast(seSum, n, SE_THRESHOLD_MAINTAIN)
    THEN [newTIB |-> currentTIB, action |-> "maintain"]
    ELSE [newTIB |-> currentTIB - ADJUSTMENT_INCREMENT_MINS, action |-> "decrease"]

\* the decision table of calculateWeeklyAdjustment
WeeklyDecision(seSum, n, currentTIB) ==
    IF AvgAtLeast(seSum, n, SE_THRESHOLD_INCREASE)
    THEN LET newTIB == Min(currentTIB + ADJUSTMENT_INCREMENT_MINS, MAX_TIME_IN_BED_MINS)
         IN  [newTIB |-> newTIB,
              action |-> IF newTIB > currentTIB THEN "increase" ELSE "maintain"]
    ELSE IF AvgAtLeast(seSum, n, SE_THRESHOLD_MAINTAIN)
    THEN [newTIB |-> currentTIB, action |-> "maintain"]
    ELSE LET newTIB == Max(currentTIB - ADJUSTMENT_INCREMENT_MINS, MIN_TIME_IN_BED_MINS)
         IN  [newTIB |-> newTIB,
              action |-> IF newTIB < currentTIB THEN "decrease" ELSE "maintain"]

\* calculateWeeklyAdjustment(u, weekEndDate): the result and the users table
calculateWeeklyAdjustment(us, ws, u, weekEndDate, fault) ==
    LET caught == [result |-> ErrorResult("Failed to calculate weekly adjustment"),
                   users |-> us]
        entries == getDiaryEntries(u, weekEndDate - TRAILING_DAYS, weekEndDate)
        n == Cardinality(entries)
        seSum == SeSum(entries)
        current == getCurrentSleepWindow(ws, u)
        currentTIB == (CHOOSE w \in current : TRUE).timeInBedMins
        decision == WeeklyDecision(seSum, n, currentTIB)
        low == AvgBelow(seSum, n, SE_FLAG_THRESHOLD)
        reason == [text |-> "Persistent low SE", tenths |-> ToFixed1(seSum, n)]
    IN  IF fault = "calc.entries" THEN caught
        ELSE IF n < MIN_ENTRIES_FOR_ADJUSTMENT
        THEN [result |-> InsufficientData(n), users |-> us]
        ELSE IF fault = "calc.currentWindow" THEN caught
        ELSE IF current = {} THEN calculateBaselineSleepWindow(us, u, fault)
        ELSE IF low /\ fault = "flag.update" THEN caught
        ELSE [result |->
                 [status |-> "success", entriesNeeded |-> 0,
                  seSum |-> seSum, seCount |-> n,
                  currentTIB |-> currentTIB,
                  newTIB |-> decision.newTIB,
                  action |-> decision.action, flagged |-> low,
                  flagReason |-> IF low THEN reason ELSE NoReason,
                  error |-> ""],
              users |-> IF low THEN flagUserForReview(us, u, reason) ELSE us]

\* adjustmentMadeMap
adjustmentMadeMap(action) ==
    CASE action = "increase" -> "INCREASE"
      [] action = "decrease" -> "DECREASE"
      [] action = "maintain" -> "NONE"
      [] action = "baseline" -> "BASELINE"

\* a table without the unique index
UniqueWeekStartDropped(ws, u, weekStartDate) == TRUE

\* the unique index sleep_windows_user_id_week_start_date_key admits the row
UniqueWeekStart(ws, u, weekStartDate) ==
    ~ \E w \in ws : w.userId = u /\ w.weekStartDate = weekStartDate

\* createSleepWindowFromAdjustment(u, weekStartDate, adjustment): the error it
\* throws ("" when it returns) and the windows table it leaves
createSleepWindowFromAdjustment(us, ws, u, weekStartDate, adj, fault) ==
    LET thrown(msg) == [error |-> msg, windows |-> ws]
        adjustmentMins ==
            IF adj.currentTIB # 0 /\ adj.newTIB # adj.currentTIB
            THEN Abs(adj.newTIB - adj.currentTIB) ELSE 0
        row == [id |-> Cardinality(ws) + 1,
                userId |-> u,
                weekStartDate |-> weekStartDate,
                prescribedBedtime |-> calculateBedtime(us[u].targetWakeTime, adj.newTIB),
                prescribedWakeTime |-> us[u].targetWakeTime,
                timeInBedMins |-> adj.newTIB,
                avgSleepEfficiency |-> RoundDiv(adj.seSum, adj.seCount),
                adjustmentMade |-> adjustmentMadeMap(adj.action),
                adjustmentMins |-> adjustmentMins,
                feedbackMessage |-> "engine"]
    IN  IF adj.status # "success" \/ adj.newTIB = 0 \/ adj.action = ""
        THEN thrown("Cannot create sleep window from incomplete adjustment result")
        ELSE IF fault = "create.userRead" THEN thrown(DbError)
        ELSE IF us[u].targetWakeTime = NoTime THEN thrown("User has no target wake time set")
        ELSE IF fault = "create.insert" THEN thrown(DbError)
        ELSE IF ~UniqueWeekStart(ws, u, weekStartDate) THEN thrown(UniqueViolation)
        ELSE [error |-> "", windows |-> ws \cup {row}]

(* ---------------------------------------------------------------------- *)
(* POST /api/diary and autoCreateDiaryFromWhoop taken one await at a time  *)
(* ---------------------------------------------------------------------- *)
\* a variant without the index
UniqueUserDateDropped(d, u, date) == TRUE

\* the unique index sleep_diaries_user_id_date_key admits a row of u for date
UniqueUserDate(d, u, date) == ~ \E e \in d : e.userId = u /\ e.date = date

\* a request or an import that has not begun
NoRequest ==
    [pc |-> "idle", userId |-> 0, date |-> 0, night |-> <<>>, pending |-> <<>>,
     existingDates |-> {}, created |-> 0, skipped |-> 0, outcome |-> "", error |-> ""]

\* POST /: the body passed validation and the metrics are computed
PostBegin(p, u, date, n) ==
    /\ calls[p].pc = "idle"
    /\ isWithinBackfillLimit(date)
    /\ n.out > n.bed
    /\ calls' = [calls EXCEPT ![p] =
           [NoRequest EXCEPT !.pc = "post.check", !.userId = u, !.date = date, !.night = n]]
    /\ UNCHANGED <<today, advances, users, diary, windows, job, scheduler>>

\* POST /: findUnique of the entry of the date
PostCheck(p) ==
    /\ calls[p].pc = "post.check"
    /\ calls' = [calls EXCEPT ![p] =
           IF \E e \in diary : e.userId = @.userId /\ e.date = @.date
           THEN [@ EXCEPT !.pc = "done", !.outcome = "409",
                          !.error = "An entry already exists for this date. Use PUT to update."]
           ELSE [@ EXCEPT !.pc = "post.create"]]
    /\ UNCHANGED <<today, advances, users, diary, windows, job, scheduler>>

\* POST /: create, which the index may reject
PostCreate(p) ==
    /\ calls[p].pc = "post.create"
    /\ LET c == calls[p]
       IN  IF UniqueUserDate(diary, c.userId, c.date)
           THEN /\ diary' = diary \cup {MakeEntry(c.userId, c.date, c.night)}
                /\ calls' = [calls EXCEPT ![p].pc = "post.baseline"]
           ELSE /\ diary' = diary
                /\ calls' = [calls EXCEPT ![p] =
                       [@ EXCEPT !.pc = "done", !.outcome = "500", !.error = UniqueViolation]]
    /\ UNCHANGED <<today, advances, users, windows, job, scheduler>>

\* POST /: checkAndUpdateBaselineStatus and the answer
PostBaseline(p) ==
    /\ calls[p].pc = "post.baseline"
    /\ users' = checkAndUpdateBaselineStatus(users, diary, calls[p].userId)
    /\ calls' = [calls EXCEPT ![p] = [@ EXCEPT !.pc = "done", !.outcome = "201"]]
    /\ UNCHANGED <<today, advances, diary, windows, job, scheduler>>

\* autoCreateDiaryFromWhoop: the device records of the last span dates, newest
\* first, each describing the night n
ImportBegin(p, u, span, n) ==
    /\ calls[p].pc = "idle"
    /\ calls' = [calls EXCEPT ![p] =
           [NoRequest EXCEPT !.pc = "import.read", !.userId = u, !.night = n,
                             !.pending = [i \in 1..span |-> today - i + 1]]]
    /\ UNCHANGED <<today, advances, users, diary, windows, job, scheduler>>

\* autoCreateDiaryFromWhoop: the dates that have an entry already
ImportRead(p) ==
    /\ calls[p].pc = "import.read"
    /\ calls' = [calls EXCEPT ![p] =
           [@ EXCEPT !.pc = "import.loop",
                     !.existingDates =
                         {e.date : e \in {x \in diary : /\ x.userId = calls[p].userId
                                                        /\ x.date >= today - TRAILING_DAYS}}]]
    /\ UNCHANGED <<today, advances, users, diary, windows, job, scheduler>>

\* autoCreateDiaryFromWhoop: one iteration of the loop over the records
ImportRecord(p) ==
    /\ calls[p].pc = "import.loop"
    /\ calls[p].pending # <<>>
    /\ LET c == calls[p]
           date == Head(c.pending)
           rest == [c EXCEPT !.pending = Tail(c.pending)]
       IN  IF date \in c.existingDates
           THEN /\ diary' = diary
                /\ calls' = [calls EXCEPT ![p] = [rest EXCEPT !.skipped = @ + 1]]
           ELSE IF UniqueUserDate(diary, c.userId, date)
           THEN /\ diary' = diary \cup {MakeEntry(c.userId, date, estimatedNight(c.night))}
                /\ calls' = [calls EXCEPT ![p] =
                       [rest EXCEPT !.created = @ + 1,
                                    !.existingDates = @ \cup {date}]]
           ELSE /\ diary' = diary
                /\ calls' = [calls EXCEPT ![p] =
                       [rest EXCEPT !.skipped = @ + 1, !.error = UniqueViolation]]
    /\ UNCHANGED <<today, advances, users, windows, job, scheduler>>

\* autoCreateDiaryFromWhoop: the baseline status and the return
ImportFinish(p) ==
    /\ calls[p].pc = "import.loop"
    /\ calls[p].pending = <<>>
    /\ users' = IF calls[p].created > 0
                THEN checkAndUpdateBaselineStatus(users, diary, calls[p].userId)
                ELSE users
    /\ calls' = [calls EXCEPT ![p] = [@ EXCEPT !.pc = "done", !.outcome = "imported"]]
    /\ UNCHANGED <<today, advances, diary, windows, job, scheduler>>

(* ---------------------------------------------------------------------- *)
(* Adherence                                                               *)
(* ---------------------------------------------------------------------- *)
\* the null that calculateAdherencePercentage returns
Null == 0 - 1

TOLERANCE_MINS == 30

\* Date.prototype.getHours and getMinutes of a timestamp in minutes
getHours(t) == (t % DAY_MINUTES) \div 60
getMinutes(t) == t % 60

\* minutes from midnight of a bedtime, an hour from 12 on counting as the
\* evening before
BedtimeMins(hour, min) ==
    IF hour >= 12 THEN hour * 60 + min - 24 * 60 ELSE hour * 60 + min

\* the test of the loop body: the night e counts for the window w
isAdherent(w, e) ==
    LET bedtimeDiff == Abs(BedtimeMins(getHours(e.bedtime), getMinutes(e.bedtime))
                           - BedtimeMins(ParseHour(w.prescribedBedtime),
                                         ParseMin(w.prescribedBedtime)))
        wakeTimeDiff == Abs(getHours(e.outOfBedTime) * 60 + getMinutes(e.outOfBedTime)
                            - (ParseHour(w.prescribedWakeTime) * 60
                               + ParseMin(w.prescribedWakeTime)))
    IN  bedtimeDiff <= TOLERANCE_MINS /\ wakeTimeDiff <= TOLERANCE_MINS

\* Math.round((adherentNights / length) * 100) in IEEE 754 doubles, for
\* length below 200: the quotient is rounded to a double before it is
\* multiplied, and for adherentNights / length = 23 / 40 the product is
\* 57.49999999999999 where the exact value is 57.5; every other pair rounds
\* as the exact value does
RoundedPercentage(adherentNights, length) ==
    IF 40 * adherentNights = 23 * length THEN 57
    ELSE RoundDiv(100 * adherentNights, length)

\* calculateAdherencePercentage(u, startDate, endDate)
calculateAdherencePercentage(ws, d, u, startDate, endDate) ==
    LET candidates == {w \in WindowsOf(ws, u) : w.weekStartDate <= endDate}
        sleepWindow == LatestWindow(candidates, u)
        entries == {e \in d : e.userId = u /\ e.date >= startDate /\ e.date <= endDate}
    IN  IF sleepWindow = {} THEN Null
        ELSE IF entries = {} THEN Null
        ELSE LET w == CHOOSE x \in sleepWindow : TRUE
                 adherentNights == Cardinality({e \in entries : isAdherent(w, e)})
             IN  RoundedPercentage(adherentNights, Cardinality(entries))

\* an invocation of calculateAdherencePercentage and what it returned
NoQuery == [pc |-> "idle", userId |-> 0, startDate |-> 0, endDate |-> 0, percentage |-> Null]

Adherence(p, u, startDate, endDate) ==
    /\ calls[p].pc = "idle"
    /\ calls' = [calls EXCEPT ![p] =
           [pc |-> "done", userId |-> u, startDate |-> startDate, endDate |-> endDate,
            percentage |-> calculateAdherencePercentage(windows, diary, u,
                                                        startDate, endDate)]]
    /\ UNCHANGED <<today, advances, users, diary, windows, job, scheduler>>

(* ---------------------------------------------------------------------- *)
(* jobs/weekly-adjustment.ts                                               *)
(* ---------------------------------------------------------------------- *)
\* the windows table after the coaching block stored the generated message
StoreCoachingMessage(ws, u, fault) ==
    IF fault \in CoachFaults \/ LatestWindow(ws, u) = {}
    THEN ws
    ELSE LET latest == CHOOSE w \in LatestWindow(ws, u) : TRUE
         IN  (ws \ {latest}) \cup {[latest EXCEPT !.feedbackMessage = "coach"]}

\* POST /api/coaching/regenerate
RegenerateCoaching(u, fault) ==
    /\ LatestWindow(windows, u) # {}
    /\ windows' =
           IF fault \in CoachFaults THEN windows
           ELSE LET latest == CHOOSE w \in LatestWindow(windows, u) : TRUE
                IN  (windows \ {latest})
                        \cup {[latest EXCEPT !.feedbackMessage = "regenerated"]}
    /\ UNCHANGED <<today, advances, users, diary, job, calls, scheduler>>

\* processUserAdjustment(u): the AdjustmentJobResult, the adjustment it
\* computed and the tables it leaves
processUserAdjustment(us, ws, u, fault) ==
    LET failed(msg, adj, us2) ==
            [result |-> JobResult(u, FALSE, adj, msg), adjustment |-> adj,
             users |-> us2, windows |-> ws]
        weekStartDate == today
        existingWindow == LatestWindow(ws, u)
        calc == IF existingWindow = {}
                THEN calculateBaselineSleepWindow(us, u, fault)
                ELSE calculateWeeklyAdjustment(us, ws, u, today, fault)
        adj == calc.result
        created == createSleepWindowFromAdjustment(calc.users, ws, u, weekStartDate, adj, fault)
    IN  IF fault = "proc.userRead" THEN failed(DbError, NoAdjustment, us)
        ELSE IF us[u].targetWakeTime = NoTime
        THEN failed("No target wake time set", NoAdjustment, us)
        ELSE IF fault = "proc.findFirst" THEN failed(DbError, NoAdjustment, us)
        ELSE IF existingWindow = {} /\ ~us[u].baselineComplete
        THEN failed("Baseline week not complete", NoAdjustment, us)
        ELSE IF adj.status = "insufficient_data"
        THEN failed("Insufficient data", adj, calc.users)
        ELSE IF adj.status = "error"
        THEN failed(IF adj.error # "" THEN adj.error ELSE "Unknown calculation error",
                    adj, calc.users)
        ELSE IF created.error # ""
        THEN failed(created.error, adj, calc.users)
        ELSE [result |-> JobResult(u, TRUE, adj, ""), adjustment |-> adj,
              users |-> calc.users,
              windows |-> StoreCoachingMessage(created.windows, u, fault)]

\* triggerAdjustmentForUser(u)
TriggerAdjustment(u, fault) ==
    LET p == processUserAdjustment(users, windows, u, fault)
    IN  /\ users' = p.users
        /\ windows' = p.windows
        /\ UNCHANGED <<today, advances, diary, job, calls, scheduler>>

\* a batch loop whose existence check never finds a row
existingAdjustmentNever(ws, u, weekStartDate) == FALSE

\* findUnique({where: {userId_weekStartDate}}) of the batch loop finds a row
existingAdjustment(ws, u, weekStartDate) ==
    \E w \in ws : w.userId = u /\ w.weekStartDate = weekStartDate

\* the users runWeeklyAdjustmentJob selects
qualifyingUsers(us) ==
    {u \in DOMAIN us : us[u].baselineComplete /\ us[u].targetWakeTime # NoTime}

\* the sequences that list every element of S once
Orderings(S) ==
    {q \in [1..Cardinality(S) -> S] : \A i, j \in 1..Cardinality(S) : q[i] = q[j] => i = j}

\* runWeeklyAdjustmentJob up to its loop: the qualifying users, in the order
\* the database returns them
JobStart ==
    /\ job.pc = "idle"
    /\ \E q \in Orderings(qualifyingUsers(users)) :
           job' = [pc |-> "running", queue |-> q, results |-> <<>>, skipped |-> 0,
                   totalUsers |-> Len(q)]
    /\ UNCHANGED <<today, advances, users, diary, windows, calls, scheduler>>

\* one iteration of the loop of runWeeklyAdjustmentJob
JobStep(fault) ==
    /\ job.pc = "running"
    /\ job.queue # <<>>
    /\ LET u == Head(job.queue)
           p == processUserAdjustment(users, windows, u, fault)
       IN  IF fault = "job.findUnique"
           THEN \* the existence check rejects outside every try block: the job rejects
                /\ job' = IdleJob
                /\ UNCHANGED <<users, windows>>
           ELSE IF existingAdjustment(windows, u, today)
           THEN /\ job' = [job EXCEPT !.queue = Tail(@), !.skipped = @ + 1]
                /\ UNCHANGED <<users, windows>>
           ELSE /\ job' = [job EXCEPT !.queue = Tail(@), !.results = Append(@, p.result)]
                /\ users' = p.users
                /\ windows' = p.windows
    /\ UNCHANGED <<today, advances, diary, calls, scheduler>>

\* runWeeklyAdjustmentJob after its loop: it returns its totals
JobFinish ==
    /\ job.pc = "running"
    /\ job.queue = <<>>
    /\ job' = IdleJob
    /\ UNCHANGED <<today, advances, users, diary, windows, calls, scheduler>>

\* the totals runWeeklyAdjustmentJob returns after its loop
JobTotals(j) ==
    [totalUsers |-> j.totalUsers,
     successful |-> Cardinality({i \in DOMAIN j.results : j.results[i].success}),
     failed |-> Cardinality({i \in DOMAIN j.results : ~j.results[i].success}),
     skipped |-> j.skipped]

(* ---------------------------------------------------------------------- *)
(* An orchestrator invocation taken one await at a time                    *)
(* ---------------------------------------------------------------------- *)
Finished(c, outcome, msg) == [c EXCEPT !.pc = "done", !.outcome = outcome, !.error = msg]

\* an invocation begins: an iteration of the batch loop for a user the batch
\* selected, or triggerAdjustmentForUser
CallBegin(p, u, batch) ==
    /\ calls[p].pc = "idle"
    /\ batch => u \in qualifyingUsers(users)
    /\ calls' = [calls EXCEPT ![p] = [NoCall EXCEPT !.pc = IF batch THEN "check" ELSE "read",
                                                     !.batch = batch, !.userId = u]]
    /\ UNCHANGED <<today, advances, users, diary, windows, job, scheduler>>

\* the existence check of the batch loop
CallCheck(p, fault) ==
    /\ calls[p].pc = "check"
    /\ calls' = [calls EXCEPT ![p] =
           IF fault = "job.findUnique" THEN Finished(@, "rejected", DbError)
           ELSE IF existingAdjustment(windows, @.userId, today) THEN Finished(@, "skipped", "")
           ELSE [@ EXCEPT !.pc = "read"]]
    /\ UNCHANGED <<today, advances, users, diary, windows, job, scheduler>>

\* processUserAdjustment up to the branch on existingWindow
CallRead(p, fault) ==
    /\ calls[p].pc = "read"
    /\ LET u == calls[p].userId
           existingWindow == LatestWindow(windows, u) # {}
       IN  calls' = [calls EXCEPT ![p] =
               IF fault = "proc.userRead" THEN Finished(@, "failed", DbError)
               ELSE IF users[u].targetWakeTime = NoTime
               THEN Finished(@, "failed", "No target wake time set")
               ELSE IF fault = "proc.findFirst" THEN Finished(@, "failed", DbError)
               ELSE IF ~existingWindow /\ ~users[u].baselineComplete
               THEN Finished(@, "failed", "Baseline week not complete")
               ELSE [@ EXCEPT !.pc = "calc", !.weekStartDate = today,
                              !.existingWindow = existingWindow]]
    /\ UNCHANGED <<today, advances, users, diary, windows, job, scheduler>>

\* processUserAdjustment: the computation of the adjustment
CallCalc(p, fault) ==
    /\ calls[p].pc = "calc"
    /\ LET u == calls[p].userId
           calc == IF calls[p].existingWindow
                   THEN calculateWeeklyAdjustment(users, windows, u, calls[p].weekStartDate, fault)
                   ELSE calculateBaselineSleepWindow(users, u, fault)
           adj == calc.result
       IN  /\ users' = calc.users
           /\ calls' = [calls EXCEPT ![p] =
                  IF adj.status = "insufficient_data" THEN Finished(@, "failed", "Insufficient data")
                  ELSE IF adj.status = "error"
                  THEN Finished(@, "failed",
                                IF adj.error # "" THEN adj.error ELSE "Unknown calculation error")
                  ELSE [@ EXCEPT !.pc = "create", !.adjustment = adj]]
    /\ UNCHANGED <<today, advances, diary, windows, job, scheduler>>

\* processUserAdjustment: createSleepWindowFromAdjustment
CallCreate(p, fault) ==
    /\ calls[p].pc = "create"
    /\ LET c == calls[p]
           created == createSleepWindowFromAdjustment(users, windows, c.userId,
                                                      c.weekStartDate, c.adjustment, fault)
       IN  /\ windows' = created.windows
           /\ calls' = [calls EXCEPT ![p] =
                  IF created.error # "" THEN Finished(@, "failed", created.error)
                  ELSE [@ EXCEPT !.pc = "coach"]]
    /\ UNCHANGED <<today, advances, users, diary, job, scheduler>>

\* a coaching block whose failure fails the invocation
CallCoachFailing(p, fault) ==
    /\ calls[p].pc = "coach"
    /\ windows' = StoreCoachingMessage(windows, calls[p].userId, fault)
    /\ calls' = [calls EXCEPT ![p] =
           IF fault \in CoachFaults THEN Finished(@, "failed", "coaching failed")
           ELSE Finished(@, "success", "")]
    /\ UNCHANGED <<today, advances, users, diary, job, scheduler>>

\* processUserAdjustment: the coaching block and the return
CallCoach(p, fault) ==
    /\ calls[p].pc = "coach"
    /\ windows' = StoreCoachingMessage(windows, calls[p].userId, fault)
    /\ calls' = [calls EXCEPT ![p] = Finished(@, "success", "")]
    /\ UNCHANGED <<today, advances, users, diary, job, scheduler>>

(* ---------------------------------------------------------------------- *)
(* POST /api/schedule/initialize taken one await at a time                 *)
(* ---------------------------------------------------------------------- *)
\* the request arrives
RouteBegin(p, u) ==
    /\ calls[p].pc = "idle"
    /\ calls' = [calls EXCEPT ![p] = [NoCall EXCEPT !.pc = "route.check", !.userId = u]]
    /\ UNCHANGED <<today, advances, users, diary, windows, job, scheduler>>

\* the route looks for a window of the user
RouteCheck(p, fault) ==
    /\ calls[p].pc = "route.check"
    /\ calls' = [calls EXCEPT ![p] =
           IF fault = "init.findFirst"
           THEN Finished(@, "500", "Failed to initialize sleep schedule")
           ELSE IF WindowsOf(windows, @.userId) # {}
           THEN Finished(@, "400", "Sleep schedule already initialized")
           ELSE [@ EXCEPT !.pc = "route.read"]]
    /\ UNCHANGED <<today, advances, users, diary, windows, job, scheduler>>

\* the route reads the user
RouteRead(p, fault) ==
    /\ calls[p].pc = "route.read"
    /\ LET u == calls[p].userId
       IN  calls' = [calls EXCEPT ![p] =
               IF fault = "init.userRead"
               THEN Finished(@, "500", "Failed to initialize sleep schedule")
               ELSE IF ~users[u].baselineComplete
               THEN Finished(@, "400", "Baseline week not yet complete")
               ELSE IF users[u].targetWakeTime = NoTime
               THEN Finished(@, "400", "Target wake time not set")
               ELSE [@ EXCEPT !.pc = "route.calc"]]
    /\ UNCHANGED <<today, advances, users, diary, windows, job, scheduler>>

\* the route computes the baseline
RouteCalc(p, fault) ==
    /\ calls[p].pc = "route.calc"
    /\ LET calc == calculateBaselineSleepWindow(users, calls[p].userId, fault)
           adj == calc.result
       IN  /\ users' = calc.users
           /\ calls' = [calls EXCEPT ![p] =
                  IF adj.status # "success"
                  THEN Finished(@, "400", IF adj.error # "" THEN adj.error
                                          ELSE "Failed to calculate initial sleep window")
                  ELSE [@ EXCEPT !.pc = "route.create", !.adjustment = adj]]
    /\ UNCHANGED <<today, advances, diary, windows, job, scheduler>>

\* the route takes the date of the day and stores the window
RouteCreate(p, fault) ==
    /\ calls[p].pc = "route.create"
    /\ LET c == calls[p]
           created == createSleepWindowFromAdjustment(users, windows, c.userId, today,
                                                      c.adjustment, fault)
       IN  /\ windows' = created.windows
           /\ calls' = [calls EXCEPT ![p] =
                  IF created.error # ""
                  THEN Finished([@ EXCEPT !.weekStartDate = today], "500",
                                "Failed to initialize sleep schedule")
                  ELSE Finished([@ EXCEPT !.weekStartDate = today], "201", "")]
    /\ UNCHANGED <<today, advances, users, diary, job, scheduler>>

(* ---------------------------------------------------------------------- *)
(* routes/schedule.ts                                                      *)
(* ---------------------------------------------------------------------- *)
\* POST /api/schedule/initialize: the response status and the tables it leaves
initializeSchedule(us, ws, u, fault) ==
    LET calc == calculateBaselineSleepWindow(us, u, fault)
        adj == calc.result
        created == createSleepWindowFromAdjustment(calc.users, ws, u, today, adj, fault)
        reply(code, us2, ws2) == [status |-> code, users |-> us2, windows |-> ws2]
    IN  IF fault = "init.findFirst" THEN reply(500, us, ws)
        ELSE IF WindowsOf(ws, u) # {} THEN reply(400, us, ws)
        ELSE IF fault = "init.userRead" THEN reply(500, us, ws)
        ELSE IF ~us[u].baselineComplete THEN reply(400, us, ws)
        ELSE IF us[u].targetWakeTime = NoTime THEN reply(400, us, ws)
        ELSE IF adj.status # "success" THEN reply(400, calc.users, ws)
        ELSE IF created.error # "" THEN reply(500, calc.users, ws)
        ELSE reply(201, calc.users, created.windows)

InitializeSchedule(u, fault) ==
    LET r == initializeSchedule(users, windows, u, fault)
    IN  /\ users' = r.users
        /\ windows' = r.windows
        /\ UNCHANGED <<today, advances, diary, job, calls, scheduler>>

(* ---------------------------------------------------------------------- *)
(* The scheduler of the weekly job                                         *)
(* ---------------------------------------------------------------------- *)
WEEK_DAYS == 7

\* Date.prototype.getDay of a day: 0 is Sunday
getDay(day) == day % 7

\* the day of nextSunday, whose time is set to 00:00
nextSunday(now) ==
    LET currentDay == getDay(now)
        daysUntilSunday == IF currentDay = 0 THEN 7 ELSE 7 - currentDay
        first == now + daysUntilSunday
    IN  \* now.getHours() >= 0 holds at every hour
        IF currentDay = 0 THEN first + 7 ELSE first

\* startWeeklyAdjustmentScheduler(), which index.ts calls once
StartScheduler ==
    /\ ~scheduler.started
    /\ scheduler' = [scheduler EXCEPT !.started = TRUE, !.startDay = today,
                                      !.adjustmentTimeout = TRUE,
                                      !.timeoutDue = nextSunday(today)]
    /\ UNCHANGED <<today, advances, users, diary, windows, job, calls>>

\* the timeout fires: its callback calls runWeeklyAdjustmentJob and waits
TimeoutFires ==
    /\ ~scheduler.exited
    /\ scheduler.timeoutDue # 0
    /\ scheduler.timeoutDue <= today
    /\ scheduler' = [scheduler EXCEPT !.timeoutDue = 0,
                                      !.running = @ \cup {"timeout"},
                                      !.runsStarted = @ + 1]
    /\ UNCHANGED <<today, advances, users, diary, windows, job, calls>>

\* the first run settles: resolved, the callback installs the interval;
\* rejected, the callback rejects with nobody to handle it, which ends the
\* process or not as the runtime is configured
TimeoutRunSettles(resolved, exits) ==
    /\ ~scheduler.exited
    /\ "timeout" \in scheduler.running
    /\ resolved => ~exits
    /\ scheduler' =
           IF resolved
           THEN [scheduler EXCEPT !.running = @ \ {"timeout"},
                                  !.adjustmentInterval = TRUE,
                                  !.intervalDue = today + WEEK_DAYS]
           ELSE [scheduler EXCEPT !.running = @ \ {"timeout"}, !.exited = exits]
    /\ UNCHANGED <<today, advances, users, diary, windows, job, calls>>

\* the interval fires: its callback calls runWeeklyAdjustmentJob and waits
IntervalFires ==
    /\ ~scheduler.exited
    /\ scheduler.intervalDue # 0
    /\ scheduler.intervalDue <= today
    /\ scheduler' = [scheduler EXCEPT !.intervalDue = @ + WEEK_DAYS,
                                      !.running = @ \cup {"interval"},
                                      !.runsStarted = @ + 1]
    /\ UNCHANGED <<today, advances, users, diary, windows, job, calls>>

\* a run of the interval settles
IntervalRunSettles(resolved, exits) ==
    /\ ~scheduler.exited
    /\ "interval" \in scheduler.running
    /\ resolved => ~exits
    /\ scheduler' = [scheduler EXCEPT !.running = @ \ {"interval"}, !.exited = exits]
    /\ UNCHANGED <<today, advances, users, diary, windows, job, calls>>

\* stopWeeklyAdjustmentScheduler()
StopScheduler ==
    /\ ~scheduler.exited
    /\ scheduler.started
    /\ ~scheduler.stopped
    /\ scheduler' = [scheduler EXCEPT
           !.stopped = TRUE,
           !.adjustmentTimeout = FALSE,
           !.timeoutDue = IF scheduler.adjustmentTimeout THEN 0 ELSE @,
           !.adjustmentInterval = FALSE,
           !.intervalDue = IF scheduler.adjustmentInterval THEN 0 ELSE @]
    /\ UNCHANGED <<today, advances, users, diary, windows, job, calls>>

\* midnight passes once every timer that is due has fired
DayPasses ==
    /\ today < FirstDay + MaxDays
    /\ ~(scheduler.timeoutDue # 0 /\ scheduler.timeoutDue <= today /\ ~scheduler.exited)
    /\ ~(scheduler.intervalDue # 0 /\ scheduler.intervalDue <= today /\ ~scheduler.exited)
    /\ today' = today + 1
    /\ UNCHANGED <<advances, users, diary, windows, job, calls, scheduler>>

(* ---------------------------------------------------------------------- *)
(* Specification: one user, every operation of the engine                  *)
(* ---------------------------------------------------------------------- *)
InitOf(ids) ==
    /\ today = FirstDay
    /\ advances = 0
    /\ users = [u \in ids |-> NewUser]
    /\ diary = {}
    /\ windows = {}
    /\ job = IdleJob
    /\ scheduler = NoScheduler
    /\ calls = <<>>

Init == InitOf({1})

DiaryNext ==
    \/ \E u \in UserIds, d \in ManualDates, n \in Nights : CreateEntry(u, d, n)
    \/ \E u \in UserIds, d \in ManualDates, n \in Nights : UpdateEntry(u, d, n)
    \/ \E u \in UserIds, d \in ManualDates : DeleteEntry(u, d)
    \/ \E u \in UserIds, k \in ImportSpans, n \in Nights : AutoImport(u, k, n)

\* requests served while no batch is running
RequestNext(faults) ==
    \/ DiaryNext
    \/ \E u \in UserIds, w \in WakeTimes : SetTargetWakeTime(u, w)
    \/ \E u \in UserIds, f \in ProcessFaults \cap faults : TriggerAdjustment(u, f)
    \/ \E u \in UserIds, f \in InitializeFaults \cap faults : InitializeSchedule(u, f)

\* the batch job, from its start to its return
JobNext(faults) ==
    \/ JobStart
    \/ \E f \in JobFaults \cap faults : JobStep(f)
    \/ JobFinish

\* the repository failures of a lifecycle run: all but those of the coaching block
LifecycleFaults == (JobFaults \cup InitializeFaults) \ CoachFaults

\* The handlers run one after the other: a batch, once started, runs to its
\* return before the next request is served or the day changes.
Next ==
    \/ job.pc = "idle" /\ RequestNext(LifecycleFaults)
    \/ job.pc = "idle" /\ \E k \in ClockSteps : AdvanceDay(k)
    \/ JobNext(LifecycleFaults)

Spec == Init /\ [][Next]_vars

(* ---------------------------------------------------------------------- *)
(* Specifications that start in the middle of a therapy                    *)
(* ---------------------------------------------------------------------- *)
\* nights of 480 minutes in bed at and just under 85 %, 80 % and 70 %
SeedNights ==
    { [bed |-> 0 - 60, out |-> 420, sol |-> 30, waso |-> 42],     \* 85.00 %
      [bed |-> 0 - 60, out |-> 420, sol |-> 30, waso |-> 43],     \* 84.79 %
      [bed |-> 0 - 60, out |-> 420, sol |-> 30, waso |-> 66],     \* 80.00 %
      [bed |-> 0 - 60, out |-> 420, sol |-> 30, waso |-> 67],     \* 79.79 %
      [bed |-> 0 - 60, out |-> 420, sol |-> 30, waso |-> 114],    \* 70.00 %
      [bed |-> 0 - 60, out |-> 420, sol |-> 30, waso |-> 115] }   \* 69.79 %

\* the time in bed of the window of the week before; 0: no window yet
SeedTIBs == {0, 300, 307, 315, 420, 533, 540}

\* how many of the last nights have an entry
SeedCounts == {4, 5, 7}

\* a user half-way: the nights alternate between two kinds
Profiles(tibs, counts, nights) ==
    [tib : tibs, count : counts, even : nights, odd : nights]

SeedUser ==
    [NewUser EXCEPT !.targetWakeTime = CHOOSE w \in WakeTimes : TRUE,
                    !.baselineComplete = TRUE,
                    !.therapyStartDate = FirstDay - TRAILING_DAYS]

SeedDiary(u, prof) ==
    {MakeEntry(u, FirstDay - i, IF i % 2 = 0 THEN prof.even ELSE prof.odd) :
        i \in 0..(prof.count - 1)}

\* the baseline window that createSleepWindowFromAdjustment stored a week ago
SeedWindow(us, u, tib) ==
    LET adj == [NoAdjustment EXCEPT !.status = "success", !.seSum = 5 * 9000, !.seCount = 5,
                                    !.currentTIB = tib, !.newTIB = tib, !.action = "baseline"]
    IN  IF tib = 0 THEN {}
        ELSE {[w EXCEPT !.id = u] :
                 w \in createSleepWindowFromAdjustment(us, {}, u, FirstDay - TRAILING_DAYS,
                                                       adj, "none").windows}

InitSeeded(ids, profiles) ==
    /\ today = FirstDay
    /\ advances = 0
    /\ users = [u \in ids |-> SeedUser]
    /\ \E f \in [ids -> profiles] :
          /\ diary = UNION {SeedDiary(u, f[u]) : u \in ids}
          /\ windows = UNION {SeedWindow(users, u, f[u].tib) : u \in ids}
    /\ job = IdleJob
    /\ scheduler = NoScheduler

\* the orchestrator and the schedule route, with every repository failure
NextSeeded ==
    \/ job.pc = "idle" /\ \E u \in UserIds, f \in ProcessFaults : TriggerAdjustment(u, f)
    \/ job.pc = "idle" /\ \E u \in UserIds, f \in InitializeFaults : InitializeSchedule(u, f)
    \/ JobNext(JobFaults)

\* one user, every seed
InitTitration == InitSeeded({1}, Profiles(SeedTIBs, SeedCounts, SeedNights)) /\ calls = <<>>

SpecTitration == InitTitration /\ [][NextSeeded]_vars

\* two users of the batch, each with or without a window and above or below
\* the flag threshold
BatchNights == {n \in SeedNights : n.waso \in {42, 115}}

BatchProfiles ==
    {prof \in Profiles({0, 540}, {4, 5}, BatchNights) : prof.even = prof.odd}

InitBatch == InitSeeded({1, 2}, BatchProfiles) /\ calls = <<>>

SpecBatch == InitBatch /\ [][NextSeeded]_vars

\* invocations for one user that interleave at their awaits
CallIds == 1..MaxCalls

RaceProfiles ==
    {prof \in Profiles({0, 300, 540}, {4, 5}, BatchNights) : prof.even = prof.odd}

RaceFaults == {"none", "create.insert", "flag.update", "job.findUnique", "coach.failed"}

InitRace == InitSeeded({1}, RaceProfiles) /\ calls = [p \in CallIds |-> NoCall]

NextRace ==
    \E p \in CallIds :
        \/ \E u \in UserIds, batch \in BOOLEAN : CallBegin(p, u, batch)
        \/ \E f \in RaceFaults : CallCheck(p, f)
        \/ \E f \in RaceFaults : CallRead(p, f)
        \/ \E f \in RaceFaults : CallCalc(p, f)
        \/ \E f \in RaceFaults : CallCreate(p, f)
        \/ \E f \in RaceFaults : CallCoach(p, f)

SpecRace == InitRace /\ [][NextRace]_vars

\* the schedule route, as invocation 1, and orchestrator invocations that
\* interleave at their awaits while the day may change
OverlapFaults == {"none", "init.findFirst", "init.userRead", "create.insert"}

NextOverlap ==
    \/ \E u \in UserIds : RouteBegin(1, u)
    \/ \E f \in OverlapFaults : RouteCheck(1, f)
    \/ \E f \in OverlapFaults : RouteRead(1, f)
    \/ \E f \in OverlapFaults : RouteCalc(1, f)
    \/ \E f \in OverlapFaults : RouteCreate(1, f)
    \/ \E p \in CallIds \ {1} :
          \/ \E u \in UserIds, batch \in BOOLEAN : CallBegin(p, u, batch)
          \/ \E f \in OverlapFaults : CallCheck(p, f)
          \/ \E f \in OverlapFaults : CallRead(p, f)
          \/ \E f \in OverlapFaults : CallCalc(p, f)
          \/ \E f \in OverlapFaults : CallCreate(p, f)
          \/ \E f \in OverlapFaults : CallCoach(p, f)
    \/ AdvanceDay(1)

SpecOverlap == InitRace /\ [][NextOverlap]_vars

\* calculateBedtime at its call site: an invocation that holds a computed
\* adjustment and is about to store the window of a user with some wake time
BedtimeHours == {0, 6, 7, 8, 23}
BedtimeMinutes == {0, 30, 59}
BedtimeTIBs == {300, 420, 480, 540, 1439, 1440, 1470, 1500, 2280}

\* "HH:MM" of an hour and a minute
TimeOfDay(h, m) == PadStart2(NatToString(h)) \o <<":">> \o PadStart2(NatToString(m))

InitBedtime ==
    /\ today = FirstDay
    /\ advances = 0
    /\ \E h \in BedtimeHours, m \in BedtimeMinutes :
          users = [u \in {1} |-> [SeedUser EXCEPT !.targetWakeTime = TimeOfDay(h, m)]]
    /\ diary = {}
    /\ windows = {}
    /\ job = IdleJob
    /\ scheduler = NoScheduler
    /\ \E tib \in BedtimeTIBs :
          calls = [p \in CallIds |->
                      IF p = 1
                      THEN [NoCall EXCEPT !.pc = "create", !.userId = 1,
                                          !.weekStartDate = FirstDay,
                                          !.adjustment =
                                              [NoAdjustment EXCEPT !.status = "success",
                                                                   !.seSum = 5 * 7000,
                                                                   !.seCount = 5,
                                                                   !.currentTIB = tib,
                                                                   !.newTIB = tib,
                                                                   !.action = "baseline"]]
                      ELSE NoCall]

NextBedtime ==
    \/ \E f \in {"none", "create.insert"} : CallCreate(1, f)
    \/ \E f \in {"none", "coach.failed"} : CallCoach(1, f)

SpecBedtime == InitBedtime /\ [][NextBedtime]_vars

\* calculateAdherencePercentage over diaries of up to MaxNights nights
MaxNights == 40
AdherenceCounts == {0, 1, 2, 5, MaxNights}
LastNight == FirstDay + MaxNights

\* nights kept to a window of 23:00 to 07:00, exactly and at the tolerance
KeptNights ==
    {[bed |-> 0 - 60, out |-> 420, sol |-> 20, waso |-> 47],
     [bed |-> 0 - 90, out |-> 450, sol |-> 20, waso |-> 47]}

\* nights off that window: a minute beyond the tolerance, three hours early,
\* and to bed after midnight
MissedNights ==
    {[bed |-> 0 - 91, out |-> 420, sol |-> 20, waso |-> 47],
     [bed |-> 0 - 240, out |-> 240, sol |-> 20, waso |-> 47],
     [bed |-> 20, out |-> 420, sol |-> 20, waso |-> 47]}

\* a window that createSleepWindowFromAdjustment stored on weekStartDate
StoredWindow(us, u, id, weekStartDate, tib) ==
    LET adj == [NoAdjustment EXCEPT !.status = "success", !.seSum = 5 * 9000, !.seCount = 5,
                                    !.currentTIB = tib, !.newTIB = tib, !.action = "baseline"]
    IN  {[w EXCEPT !.id = id] :
            w \in createSleepWindowFromAdjustment(us, {}, u, weekStartDate, adj, "none").windows}

\* the windows of the user: none, one, or an older one of 420 minutes too
AdherenceWindows(us) ==
    {{},
     StoredWindow(us, 1, 1, LastNight - 7, 480),
     StoredWindow(us, 1, 1, LastNight - 3, 480),
     StoredWindow(us, 1, 1, LastNight - 14, 420) \cup StoredWindow(us, 1, 2, LastNight - 7, 480),
     StoredWindow(us, 1, 1, LastNight - 14, 420) \cup StoredWindow(us, 1, 2, LastNight - 3, 480)}

\* the periods asked for: the last week, all nights, all but the last week
AdherencePeriods ==
    {<<LastNight - 6, LastNight>>,
     <<LastNight - MaxNights, LastNight>>,
     <<LastNight - MaxNights, LastNight - 7>>}

InitAdherence ==
    /\ today = LastNight
    /\ advances = 0
    /\ users = [u \in {1} |-> SeedUser]
    /\ \E n \in AdherenceCounts, kept \in KeptNights, missed \in MissedNights :
          \E a \in 0..n :
             diary = {MakeEntry(1, LastNight - i, IF i < a THEN kept ELSE missed) :
                         i \in 0..(n - 1)}
    /\ windows \in AdherenceWindows(users)
    /\ job = IdleJob
    /\ scheduler = NoScheduler
    /\ calls = [p \in CallIds |-> NoQuery]

NextAdherence ==
    \E p \in CallIds, u \in UserIds, period \in AdherencePeriods :
        Adherence(p, u, period[1], period[2])

SpecAdherence == InitAdherence /\ [][NextAdherence]_vars

\* the diary of one user under requests and device records that describe
\* degenerate nights as well: more time awake than in bed, out of bed at the
\* bedtime, out of bed before the bedtime
DiaryNights ==
    {[bed |-> 0 - 60, out |-> 420, sol |-> 20, waso |-> 47],
     [bed |-> 0, out |-> 60, sol |-> 100, waso |-> 200],
     [bed |-> 60, out |-> 60, sol |-> 0, waso |-> 30],
     [bed |-> 120, out |-> 60, sol |-> 10, waso |-> 0]}

DiarySpans == {1, 2}
DiaryDates == {today, today - 1}

NextDiary ==
    \/ \E u \in UserIds, d \in DiaryDates, n \in DiaryNights : CreateEntry(u, d, n)
    \/ \E u \in UserIds, d \in DiaryDates, n \in DiaryNights : UpdateEntry(u, d, n)
    \/ \E u \in UserIds, d \in DiaryDates : DeleteEntry(u, d)
    \/ \E u \in UserIds, k \in DiarySpans, n \in DiaryNights : AutoImport(u, k, n)
    \/ AdvanceDay(1)

SpecDiary == InitOf({1}) /\ [][NextDiary]_vars

\* create requests and device imports of one user that interleave at their
\* awaits
RaceNights ==
    {[bed |-> 0 - 60, out |-> 420, sol |-> 20, waso |-> 47],
     [bed |-> 0 - 30, out |-> 400, sol |-> 10, waso |-> 30]}

InitDiaryRace ==
    /\ today = FirstDay
    /\ advances = 0
    /\ users = [u \in {1} |-> NewUser]
    /\ diary = {}
    /\ windows = {}
    /\ job = IdleJob
    /\ scheduler = NoScheduler
    /\ calls = [p \in CallIds |-> NoRequest]

NextDiaryRace ==
    \E p \in CallIds :
        \/ \E u \in UserIds, d \in DiaryDates, n \in RaceNights : PostBegin(p, u, d, n)
        \/ PostCheck(p)
        \/ PostCreate(p)
        \/ PostBaseline(p)
        \/ \E u \in UserIds, k \in DiarySpans, n \in RaceNights : ImportBegin(p, u, k, n)
        \/ ImportRead(p)
        \/ ImportRecord(p)
        \/ ImportFinish(p)

SpecDiaryRace == InitDiaryRace /\ [][NextDiaryRace]_vars

\* the windows of one user under weekly runs, coaching requests and changes
\* of the target wake time
ProfileWakeTimes == {TimeOfDay(7, 0), TimeOfDay(6, 30)}
WindowFaults == {"none", "coach.failed"}

InitWindows ==
    /\ InitSeeded({1}, {prof \in Profiles({0, 420}, {5}, BatchNights) : prof.even = prof.odd})
    /\ calls = <<>>

NextWindows ==
    \/ job.pc = "idle" /\ \E u \in UserIds, f \in WindowFaults : TriggerAdjustment(u, f)
    \/ job.pc = "idle" /\ \E u \in UserIds : InitializeSchedule(u, "none")
    \/ job.pc = "idle" /\ \E u \in UserIds, f \in WindowFaults : RegenerateCoaching(u, f)
    \/ job.pc = "idle" /\ \E u \in UserIds, w \in ProfileWakeTimes : SetTargetWakeTime(u, w)
    \/ job.pc = "idle" /\ AdvanceDay(TRAILING_DAYS)
    \/ JobNext(WindowFaults)

SpecWindows == InitWindows /\ [][NextWindows]_vars

\* weekly runs of a user who has an entry for each of the last 5, 7 or 8
\* dates, the dates a create request may name
WeekCounts == {5, TRAILING_DAYS, TRAILING_DAYS + 1}

InitWeekly == InitSeeded({1}, Profiles({420}, WeekCounts, BatchNights)) /\ calls = <<>>

NextWeekly ==
    \/ job.pc = "idle" /\ \E u \in UserIds, f \in WindowFaults : TriggerAdjustment(u, f)
    \/ job.pc = "idle" /\ AdvanceDay(1)
    \/ JobNext(WindowFaults)

SpecWeekly == InitWeekly /\ [][NextWeekly]_vars

\* the scheduler, started on any day of a week
InitScheduler ==
    /\ today \in FirstDay..(FirstDay + WEEK_DAYS - 1)
    /\ advances = 0
    /\ users = <<>>
    /\ diary = {}
    /\ windows = {}
    /\ job = IdleJob
    /\ calls = <<>>
    /\ scheduler = NoScheduler

NextScheduler ==
    \/ StartScheduler
    \/ TimeoutFires
    \/ \E resolved, exits \in BOOLEAN : TimeoutRunSettles(resolved, exits)
    \/ IntervalFires
    \/ \E resolved, exits \in BOOLEAN : IntervalRunSettles(resolved, exits)
    \/ StopScheduler
    \/ DayPasses

SpecScheduler == InitScheduler /\ [][NextScheduler]_vars

(* ---------------------------------------------------------------------- *)
(* Properties of the lifecycle specification Spec                          *)
(* ---------------------------------------------------------------------- *)
\* C1: every persisted window has its time in bed within [300, 540].
C1_WindowWithinBounds ==
    \A w \in windows :
        w.timeInBedMins >= MIN_TIME_IN_BED_MINS /\ w.timeInBedMins <= MAX_TIME_IN_BED_MINS

\* C3: the action calculateWeeklyAdjustment returns names the change that
\* occurred: "increase" exactly when newTIB is above the current window's time
\* in bed, "decrease" exactly when below, "maintain" exactly when equal.
C3_ActionReflectsChange ==
    \A u \in UserIds :
        LET r == calculateWeeklyAdjustment(users, windows, u, today, "none").result
        IN  (r.status = "success" /\ r.action # "baseline") =>
                /\ (r.action = "increase") <=> (r.newTIB > r.currentTIB)
                /\ (r.action = "decrease") <=> (r.newTIB < r.currentTIB)
                /\ (r.action = "maintain") <=> (r.newTIB = r.currentTIB)

\* C4: a batch iteration that finds a window of its user for today counts the
\* user as skipped, pushes no result and leaves the tables alone, and no
\* (userId, weekStartDate) ever has two windows.
C4_RerunSkips ==
    /\ [](\A w1, w2 \in windows :
             (w1.userId = w2.userId /\ w1.weekStartDate = w2.weekStartDate) => w1 = w2)
    /\ [][(/\ job.pc = "running"
           /\ job.queue # <<>>
           /\ job' # job
           /\ \E w \in windows : w.userId = Head(job.queue) /\ w.weekStartDate = today)
              => /\ windows' = windows
                 /\ users' = users
                 /\ job'.pc = "running" =>
                        /\ job'.skipped = job.skipped + 1
                        /\ job'.results = job.results
                        /\ job'.queue = Tail(job.queue)]_vars

\* a second batch run met the window of this day and skipped its user
C4_Witness ==
    /\ job.pc = "running"
    /\ job.skipped = 1
    /\ job.queue = <<>>
    /\ Cardinality({w \in windows : w.userId = 1 /\ w.weekStartDate = today}) = 1

\* C6: no user has two windows whose weekStartDates fall in one calendar week.
C6_OneWindowPerCalendarWeek ==
    \A w1, w2 \in windows :
        (w1.userId = w2.userId /\ WeekOf(w1.weekStartDate) = WeekOf(w2.weekStartDate))
            => w1 = w2

\* C7: while a window exists for the user and today, no operation creates or
\* modifies a window of the user or changes the user's flag or flag reason.
C7_ExistingWeekIsNoOp ==
    [][\A u \in UserIds :
          ((\E w \in windows : w.userId = u /\ w.weekStartDate = today) /\ today' = today)
              => /\ {w \in windows' : w.userId = u} = {w \in windows : w.userId = u}
                 /\ users'[u].flaggedForReview = users[u].flaggedForReview
                 /\ users'[u].flaggedReason = users[u].flaggedReason]_vars

\* C9: where the orchestrator succeeds for a user and flags it, it succeeds
\* alike and leaves the same windows when the flag write fails.
C9_FlagFailureKeepsDecision ==
    \A u \in UserIds :
        LET ok == processUserAdjustment(users, windows, u, "none")
            bad == processUserAdjustment(users, windows, u, "flag.update")
        IN  (ok.result.success /\ ok.adjustment.flagged) =>
                /\ bad.adjustment.status = "success"
                /\ bad.result.success
                /\ bad.windows = ok.windows

\* C10: no step takes a user's flaggedForReview from true back to false.
C10_FlagIsRatchet ==
    [][\A u \in UserIds : users[u].flaggedForReview => users'[u].flaggedForReview]_vars

\* a user flagged at the baseline whose later week was decided on an
\* efficiency of 85 % or more
C10_Witness ==
    \E u \in UserIds :
        /\ users[u].flaggedForReview
        /\ users[u].flaggedReason.text = "Low baseline SE"
        /\ \E w \in windows :
              /\ w.userId = u
              /\ w.adjustmentMade # "BASELINE"
              /\ w.avgSleepEfficiency >= SE_THRESHOLD_INCREASE * 100

C5_RaceLeavesOneWindow ==
    /\ \A w1, w2 \in windows :
          (w1.userId = w2.userId /\ w1.weekStartDate = w2.weekStartDate) => w1 = w2
    /\ \A p, q \in DOMAIN calls :
          (/\ p # q
           /\ calls[p].outcome = "success" /\ calls[q].outcome = "success"
           /\ calls[p].userId = calls[q].userId)
              => calls[p].weekStartDate # calls[q].weekStartDate
    /\ \A p \in DOMAIN calls :
          calls[p].outcome = "success" =>
              \E w \in windows :
                  w.userId = calls[p].userId /\ w.weekStartDate = calls[p].weekStartDate

\* both invocations passed the existence check and computed; one created the
\* window and the other was rejected by the unique index
C5_Witness ==
    \E p, q \in DOMAIN calls :
        /\ calls[p].outcome = "success"
        /\ calls[q].outcome = "failed" /\ calls[q].error = UniqueViolation
        /\ calls[q].batch
        /\ calls[p].weekStartDate = calls[q].weekStartDate
        /\ Cardinality({w \in windows : w.weekStartDate = calls[q].weekStartDate}) = 1

\* C8: while the batch has users left after the current one, its next step
\* keeps the batch running and moves on to the next user.
C8_FailureNeverAbortsBatch ==
    [][(job.pc = "running" /\ Len(job.queue) >= 2 /\ job' # job)
          => (job'.pc = "running" /\ job'.queue = Tail(job.queue))]_vars

\* the entries the computations of this day evaluate, their number and the
\* sum of their efficiencies
PeriodEntries(u) == {e \in diary : e.userId = u /\ e.date >= today - 7 /\ e.date <= today}
PeriodCount(u) == Cardinality(PeriodEntries(u))
PeriodTotal(u) == SumFn([e \in PeriodEntries(u) |-> e.sleepEfficiency], PeriodEntries(u))

\* C11: a successful baseline or weekly computation reports flagged and stores
\* flaggedForReview = true exactly when the average efficiency is below 70 %
\* (otherwise it leaves the users table alone), a flagged weekly decision is
\* still max(T - 15, 300), and newTIB and action do not depend on the flag
\* the user has before the call.
C11_FlagOrthogonal ==
    \A u \in UserIds :
        LET low == PeriodTotal(u) < 7000 * PeriodCount(u)
            marked(b) == [users EXCEPT ![u].flaggedForReview = b]
            base(us) == calculateBaselineSleepWindow(us, u, "none")
            week(us) == calculateWeeklyAdjustment(us, windows, u, today, "none")
            exact(r) ==
                r.result.status = "success" =>
                    /\ r.result.flagged <=> low
                    /\ low => r.users[u].flaggedForReview
                    /\ ~low => r.users = users
            same(r1, r2) ==
                /\ r1.result.status = r2.result.status
                /\ r1.result.newTIB = r2.result.newTIB
                /\ r1.result.action = r2.result.action
        IN  /\ exact(base(users))
            /\ exact(week(users))
            /\ same(base(marked(TRUE)), base(marked(FALSE)))
            /\ same(week(marked(TRUE)), week(marked(FALSE)))
            /\ \A w \in getCurrentSleepWindow(windows, u) :
                  (low /\ week(users).result.status = "success") =>
                      week(users).result.newTIB = Max(w.timeInBedMins - 15, 300)

\* a week averaging 69.79 % was decided and the user flagged by it
C11_Witness ==
    \E u \in UserIds : \E w \in windows :
        /\ w.userId = u /\ w.weekStartDate = today
        /\ w.adjustmentMade = "DECREASE"
        /\ w.avgSleepEfficiency = 6979
        /\ users[u].flaggedForReview
        /\ users[u].flaggedReason.text = "Persistent low SE"

\* C12: whatever repository call of theirs fails, the baseline and the weekly
\* computation return a result with status success, insufficient_data or
\* error; an error result carries a message; and a failure that changes the
\* outcome is reported as status error with nothing stored.
C12_TypedResults ==
    \A u \in UserIds : \A f \in EngineFaults :
        LET base(g) == calculateBaselineSleepWindow(users, u, g)
            week(g) == calculateWeeklyAdjustment(users, windows, u, today, g)
            typed(r) ==
                /\ r.result.status \in {"success", "insufficient_data", "error"}
                /\ r.result.status = "error" => r.result.error # ""
                /\ r.result.status # "error" => r.result.error = ""
            reported(r, r0) ==
                r # r0 => (r.result.status = "error" /\ r.result.error # "" /\ r.users = users)
        IN  /\ typed(base(f)) /\ typed(week(f))
            /\ reported(base(f), base("none"))
            /\ reported(week(f), week("none"))

\* the batch met a user whose weekly computation failed at a repository call
\* and recorded the error the computation returned
C12_Witness ==
    \E i \in DOMAIN job.results :
        /\ ~job.results[i].success
        /\ job.results[i].error = "Failed to calculate weekly adjustment"

C15_BaselineFormula ==
    \A u \in UserIds :
        LET entries == PeriodEntries(u)
            n == PeriodCount(u)
            clamp(x) == Max(300, Min(540, x))
            avgTIB == RoundDiv(SumFn([e \in entries |-> e.timeInBedMins], entries), n)
            avgTST == RoundDiv(SumFn([e \in entries |-> e.totalSleepTimeMins], entries), n)
            r == calculateBaselineSleepWindow(users, u, "none").result
        IN  r.status = "success" =>
                /\ r.action = "baseline"
                /\ r.newTIB = IF PeriodTotal(u) >= 7500 * n THEN clamp(avgTIB)
                              ELSE clamp(avgTST + 30)

\* C16: for a user without a window, calculateWeeklyAdjustment returns the
\* outcome calculateBaselineSleepWindow returns in the same state.
C16_WeeklyFallsBackToBaseline ==
    \A u \in UserIds :
        (~ \E w \in windows : w.userId = u) =>
            calculateWeeklyAdjustment(users, windows, u, today, "none").result
                = calculateBaselineSleepWindow(users, u, "none").result

\* C17: each user has at most one window whose adjustmentMade is BASELINE,
\* and no window of the user has an earlier weekStartDate than it.
C17_OneBaselineFirst ==
    \A w \in windows :
        w.adjustmentMade = "BASELINE" =>
            \A x \in windows :
                x.userId = w.userId =>
                    /\ x.weekStartDate >= w.weekStartDate
                    /\ x.adjustmentMade = "BASELINE" => x = w

\* C18: once baselineComplete is true for a user, no step of the diary
\* routes, the device import, the clock or the orchestrator makes it false,
\* also when fewer than 5 entries remain in the trailing 7 days.
C18_BaselineCompleteIsMonotonic ==
    [][\A u \in UserIds : users[u].baselineComplete => users'[u].baselineComplete]_vars

\* a user whose baseline is complete while fewer than 5 entries remain
C18_Witness ==
    \E u \in UserIds :
        /\ users[u].baselineComplete
        /\ PeriodCount(u) < BASELINE_ENTRY_COUNT

\* C19: every stored window has adjustmentMins = 0 when its adjustmentMade is
\* BASELINE or NONE, and otherwise adjustmentMins is the absolute difference
\* between its timeInBedMins and that of the same user's window with the
\* latest earlier weekStartDate.
C19_AdjustmentMinsIsChange ==
    \A w \in windows :
        LET earlier == {x \in windows : x.userId = w.userId
                                        /\ x.weekStartDate < w.weekStartDate}
        IN  IF w.adjustmentMade \in {"BASELINE", "NONE"}
            THEN w.adjustmentMins = 0
            ELSE \E x \in earlier :
                    /\ \A y \in earlier : y.weekStartDate <= x.weekStartDate
                    /\ w.adjustmentMins = Abs(w.timeInBedMins - x.timeInBedMins)

\* C20: for every wake time and every timeInBedMins, calculateBedtime returns
\* a zero-padded HH:MM string b with hour 00-23 and minute 00-59 such that
\* (minutes(wakeTime) - minutes(b)) mod 1440 = timeInBedMins mod 1440, as seen
\* in the window stored from them; ("07:00", 480) gives "23:00",
\* ("06:00", 420) gives "23:00" and ("08:00", 480) gives "00:00".
C20_BedtimeRoundTrip ==
    /\ calculateBedtime(TimeOfDay(7, 0), 480) = TimeOfDay(23, 0)
    /\ calculateBedtime(TimeOfDay(6, 0), 420) = TimeOfDay(23, 0)
    /\ calculateBedtime(TimeOfDay(8, 0), 480) = TimeOfDay(0, 0)
    /\ \A w \in windows :
          LET b == w.prescribedBedtime
              isDigit(c) == \E i \in 1..Len(Digits) : Digits[i] = c
              wakeMinutes == ParseHour(w.prescribedWakeTime) * 60
                                 + ParseMin(w.prescribedWakeTime)
          IN  /\ Len(b) = 5
              /\ b[3] = ":"
              /\ \A i \in {1, 2, 4, 5} : isDigit(b[i])
              /\ ParseHour(b) \in 0..23
              /\ ParseMin(b) \in 0..59
              /\ (wakeMinutes - (ParseHour(b) * 60 + ParseMin(b))) % DAY_MINUTES
                     = w.timeInBedMins % DAY_MINUTES

\* C21: calculateAdherencePercentage returns null when no window has
\* weekStartDate <= end or no entry has a date in [start, end]; otherwise it
\* returns round(100 * adherentNights / totalNights), an integer in 0..100,
\* for the most recent window with weekStartDate <= end, a night being
\* adherent iff its bedtime and its out-of-bed time, as minutes from midnight
\* with bedtime hours >= 12 made negative, are within 30 minutes of the
\* prescribed ones.
C21_AdherenceFormula ==
    \A p \in DOMAIN calls :
        calls[p].pc = "done" =>
            LET c == calls[p]
                upTo == {w \in windows : w.userId = c.userId /\ w.weekStartDate <= c.endDate}
                nights == {e \in diary : /\ e.userId = c.userId
                                         /\ e.date >= c.startDate
                                         /\ e.date <= c.endDate}
                fromMidnight(h, m, evening) == IF evening /\ h >= 12 THEN h * 60 + m - DAY_MINUTES
                                               ELSE h * 60 + m
                actual(t, evening) ==
                    fromMidnight((t % DAY_MINUTES) \div 60, t % 60, evening)
                prescribed(s, evening) ==
                    fromMidnight(DigitsToNat(SubSeq(s, 1, 2)), DigitsToNat(SubSeq(s, 4, 5)),
                                 evening)
                kept(w, e) ==
                    /\ Abs(actual(e.bedtime, TRUE) - prescribed(w.prescribedBedtime, TRUE)) <= 30
                    /\ Abs(actual(e.outOfBedTime, FALSE)
                           - prescribed(w.prescribedWakeTime, FALSE)) <= 30
            IN  IF upTo = {} \/ nights = {}
                THEN c.percentage = Null
                ELSE \E w \in upTo :
                        /\ \A x \in upTo : x.weekStartDate <= w.weekStartDate
                        /\ c.percentage \in 0..100
                        /\ LET adherentNights == Cardinality({e \in nights : kept(w, e)})
                               totalNights == Cardinality(nights)
                           IN  \* round(100 * adherentNights / totalNights)
                               /\ 2 * totalNights * c.percentage
                                      <= 200 * adherentNights + totalNights
                               /\ 200 * adherentNights + totalNights
                                      < 2 * totalNights * (c.percentage + 1)

\* C22: every stored diary entry, after any sequence of creations, updates
\* and device imports, has timeInBedMins = outOfBedTime - bedtime and
\* totalSleepTimeMins = max(0, timeInBedMins - sleepOnsetLatencyMins -
\* wakeAfterSleepOnsetMins), and sleepEfficiency 0 whenever timeInBedMins <= 0;
\* the metrics are defined for every night, out of bed not after bedtime
\* included.
C22_StoredMetrics ==
    \A e \in diary :
        LET asleep == e.timeInBedMins - e.sleepOnsetLatencyMins - e.wakeAfterSleepOnsetMins
        IN  /\ e.timeInBedMins = e.outOfBedTime - e.bedtime
            /\ e.totalSleepTimeMins = (IF asleep > 0 THEN asleep ELSE 0)
            /\ e.timeInBedMins <= 0 => e.sleepEfficiency = 0

\* a device record whose end precedes its start was stored
C22_Witness ==
    \E e \in diary :
        /\ e.outOfBedTime < e.bedtime
        /\ e.wakeAfterSleepOnsetMins + e.sleepOnsetLatencyMins > 0
        /\ e.totalSleepTimeMins = 0

\* C23: at most one diary entry exists per (userId, date), also when two
\* create requests, or a create request and a device import, of one user and
\* date interleave; and a create for a date that has an entry is rejected and
\* leaves the diary as it was.
C23_OneEntryPerDate ==
    /\ [](\A e1, e2 \in diary :
             (e1.userId = e2.userId /\ e1.date = e2.date) => e1 = e2)
    /\ [][\A p \in DOMAIN calls :
             (/\ calls[p].pc \in {"post.check", "post.create"}
              /\ calls'[p] # calls[p]
              /\ \E e \in diary : e.userId = calls[p].userId /\ e.date = calls[p].date)
             => /\ calls'[p].outcome \in {"409", "500"}
                /\ diary' = diary]_vars

\* a create request that passed its check lost against another writer
C23_Witness ==
    \E p \in DOMAIN calls :
        /\ calls[p].pc = "done"
        /\ calls[p].outcome = "500"
        /\ \E e \in diary : e.userId = calls[p].userId /\ e.date = calls[p].date

\* C24: a stored window keeps its weekStartDate, prescribedBedtime,
\* prescribedWakeTime, timeInBedMins, avgSleepEfficiency, adjustmentMade and
\* adjustmentMins through every later step: weekly runs, storing or
\* regenerating the coaching message, changes of the user's targetWakeTime.
C24_WindowFieldsImmutable ==
    [][\A w \in windows :
          \E x \in windows' :
              /\ x.id = w.id
              /\ x.userId = w.userId
              /\ x.weekStartDate = w.weekStartDate
              /\ x.prescribedBedtime = w.prescribedBedtime
              /\ x.prescribedWakeTime = w.prescribedWakeTime
              /\ x.timeInBedMins = w.timeInBedMins
              /\ x.avgSleepEfficiency = w.avgSleepEfficiency
              /\ x.adjustmentMade = w.adjustmentMade
              /\ x.adjustmentMins = w.adjustmentMins]_vars

\* a window whose message was regenerated after the user changed the wake
\* time and a later weekly run made a new window
C24_Witness ==
    \E w, x \in windows :
        /\ w.userId = x.userId
        /\ w.weekStartDate < x.weekStartDate
        /\ w.prescribedWakeTime # x.prescribedWakeTime
        /\ x.feedbackMessage = "regenerated"

\* C25: a weekly run averages only the last 7 days: the window a weekly run
\* stores today carries the average efficiency of the user's entries of the
\* 7 dates up to today, so an entry dated 7 days before today, which the run
\* of a week ago counted, is not counted again.
C25_AveragesLastSevenDays ==
    [][\A x \in windows' \ windows :
          x.adjustmentMade # "BASELINE" =>
              LET last7 == {e \in diary : /\ e.userId = x.userId
                                          /\ e.date > today - TRAILING_DAYS
                                          /\ e.date <= today}
                  total == SumFn([e \in last7 |-> e.sleepEfficiency], last7)
              IN  /\ last7 # {}
                  /\ x.avgSleepEfficiency = RoundDiv(total, Cardinality(last7))]_vars

\* C26: the decision does not depend on the message generator: the step of
\* processUserAdjustment that follows the creation of the window, whether
\* the coaching context, the generation or the storing of the message fails
\* or not, ends the invocation with success and the computed action and
\* newTIB, and leaves every window as it was but for its feedbackMessage, the
\* created one still holding newTIB and the decision.
C26_CoachingNeverFailsDecision ==
    [][\A p \in DOMAIN calls :
          (calls[p].pc = "coach" /\ calls'[p] # calls[p]) =>
              /\ calls'[p].outcome = "success"
              /\ calls'[p].adjustment.action = calls[p].adjustment.action
              /\ calls'[p].adjustment.newTIB = calls[p].adjustment.newTIB
              /\ \A w \in windows :
                    \E x \in windows' : [x EXCEPT !.feedbackMessage = ""]
                                            = [w EXCEPT !.feedbackMessage = ""]
              /\ \E x \in windows' :
                    /\ x.userId = calls[p].userId
                    /\ x.weekStartDate = calls[p].weekStartDate
                    /\ x.timeInBedMins = calls[p].adjustment.newTIB
                    /\ x.adjustmentMade = adjustmentMadeMap(calls[p].adjustment.action)
                    /\ x.prescribedWakeTime = users[x.userId].targetWakeTime]_vars

\* an invocation ended with success although its message was not stored
C26_Witness ==
    \E p \in DOMAIN calls :
        /\ calls[p].pc = "done"
        /\ calls[p].outcome = "success"
        /\ \E w \in windows :
              /\ w.userId = calls[p].userId
              /\ w.weekStartDate = calls[p].weekStartDate
              /\ w.feedbackMessage = "engine"

\* C27: no window exists for a user who lacks a targetWakeTime or whose
\* baselineComplete is false, whichever entry point made it: the schedule
\* route, the batch job, triggerAdjustmentForUser, the weekly fallback to the
\* baseline.
C27_WindowNeedsWakeTimeAndBaseline ==
    \A w \in windows :
        /\ users[w.userId].baselineComplete
        /\ users[w.userId].targetWakeTime # NoTime

\* a user holds a first window while the entries that completed the baseline
\* are no longer all there
C27_Witness ==
    \E w \in windows :
        /\ w.adjustmentMade = "BASELINE"
        /\ Cardinality(EntriesOf(w.userId)) < BASELINE_ENTRY_COUNT

\* C28: the timeout startWeeklyAdjustmentScheduler arms is due on the
\* earliest Sunday 00:00 strictly after the start, so never more than 7 days
\* after it, whatever the weekday of the start, Sunday included.
C28_FirstRunNextSunday ==
    scheduler.timeoutDue # 0 =>
        /\ scheduler.timeoutDue % 7 = 0
        /\ scheduler.timeoutDue > scheduler.startDay
        /\ scheduler.timeoutDue - scheduler.startDay <= 7

\* C29: after stopWeeklyAdjustmentScheduler returned the scheduler starts no
\* further run, also when it was called while the first run was in progress.
C29_NoRunAfterStop ==
    [][scheduler.stopped => scheduler'.runsStarted = scheduler.runsStarted]_vars

\* C30: started and not stopped, the scheduler always has a next run ahead:
\* whenever no run is in progress, also after a run that rejected, the first
\* one included, a timer for the next run is armed.
C30_NextRunAlwaysArmed ==
    (scheduler.started /\ ~scheduler.stopped /\ scheduler.running = {}) =>
        (scheduler.timeoutDue # 0 \/ scheduler.intervalDue # 0)

====
